---- MODULE Spec2Model ----
(***************************************************************************)
(* Conscience Inquiry: the storage accessor (js/storage.js), the           *)
(* interaction widgets (js/interactions.js) and the synthesis page         *)
(* controller (js/synthesis.js), as state machines over one browser tab's  *)
(* local storage, DOM and timer table.                                     *)
(***************************************************************************)
EXTENDS Integers, Sequences, FiniteSets, TLC

VARIABLES
  store,       \* localStorage: storage key -> stored text (NoItem when absent)
  fault,       \* the persistence API's condition: "none" | "quota" | "disabled"
  ret,         \* the last storage-accessor call: what was called and what came back
  lastSaved,   \* history: per key, the value of the last save that returned true
  marked,      \* history: the page names markPageCompleted wrote successfully
  slider,      \* value of the slider input bound by initSlider
  display,     \* textContent of the slider's display element
  exported,    \* lines of the document exportSynthesis built last
  textarea,    \* value of #synthesis-statement
  finalSlider, \* value of #final-slider
  timers,      \* the browser's timer table: pending setTimeout callbacks
  timeout,     \* the timer id held by the debounce closure
  nextId,      \* next fresh id for a timer or a DOM element
  toasts,      \* .confirmation-toast elements in document.body, in document order
  styles,      \* number of #toast-styles elements in document.head
  page,        \* the document the tab shows: "synthesis" | "conclusion"
  last,        \* history: the handler that ran last, with what it saw
  idle,        \* history: ms since the last text-area input event (capped)
  burstSaves,  \* history: auto-save writes since the last text-area input event
  accepted     \* history: the text the last accepted submit persisted

storageVars == <<store, fault, ret, lastSaved, marked>>
sliderVars  == <<slider, display>>
pageVars    == <<textarea, finalSlider, timers, timeout, nextId, toasts, styles,
                 page, last, idle, burstSaves, accepted>>
vars == <<store, fault, ret, lastSaved, marked, slider, display, exported,
          textarea, finalSlider, timers, timeout, nextId, toasts, styles,
          page, last, idle, burstSaves, accepted>>

(***************************************************************************)
(* JavaScript values.  One record shape for all of them, so that any two   *)
(* can be compared: t is the type tag, n a number, s a string (a sequence  *)
(* of one-character strings), a an array of page names.                    *)
(***************************************************************************)
Val(t, n, s, a) == [t |-> t, n |-> n, s |-> s, a |-> a]
Num(n)    == Val("num", n, <<>>, <<>>)
Str(s)    == Val("str", 0, s, <<>>)
Arr(a)    == Val("arr", 0, <<>>, a)
Bool(b)   == Val("bool", IF b THEN 1 ELSE 0, <<>>, <<>>)
Null      == Val("null", 0, <<>>, <<>>)
Undefined == Val("undefined", 0, <<>>, <<>>)
NaN       == Val("nan", 0, <<>>, <<>>)
\* An object that refers to itself: JSON.stringify throws a TypeError on it.
Cyclic    == Val("cyclic", 0, <<>>, <<>>)

(***************************************************************************)
(* Stored text.  localStorage holds strings; the ones this program writes  *)
(* are JSON texts.  A text is kept by its syntax tree: the JSON text of a  *)
(* number, of a string, of an array, the text null, and two texts that are *)
(* not JSON: the text "undefined" (what setItem makes of the value         *)
(* undefined) and any other unparsable text.  NoItem is getItem's null.    *)
(***************************************************************************)
NoItem        == Val("no_item", 0, <<>>, <<>>)
TextUndefined == Val("text_undefined", 0, <<>>, <<>>)
TextGarbage   == Val("text_garbage", 0, <<>>, <<>>)
JsonNull      == Val("json_null", 0, <<>>, <<>>)

\* The outcome of evaluating an expression: it threw, or it produced v.
Threw     == [threw |-> TRUE, v |-> Undefined]
Done(v)   == [threw |-> FALSE, v |-> v]

\* JSON.stringify(value)
JSON_stringify(value) ==
  CASE value.t = "num"       -> Done(Val("json_num", value.n, <<>>, <<>>))
    [] value.t = "str"       -> Done(Val("json_str", 0, value.s, <<>>))
    [] value.t = "arr"       -> Done(Val("json_arr", 0, <<>>, value.a))
    [] value.t = "bool"      -> Done(Val("json_bool", value.n, <<>>, <<>>))
    [] value.t = "null"      -> Done(JsonNull)
    [] value.t = "nan"       -> Done(JsonNull)
    [] value.t = "undefined" -> Done(Undefined)
    [] OTHER                 -> Threw

\* JSON.parse(text)
JSON_parse(text) ==
  CASE text.t = "json_num"  -> Done(Num(text.n))
    [] text.t = "json_str"  -> Done(Str(text.s))
    [] text.t = "json_arr"  -> Done(Arr(text.a))
    [] text.t = "json_bool" -> Done(Val("bool", text.n, <<>>, <<>>))
    [] text.t = "json_null" -> Done(Null)
    [] OTHER                -> Threw

\* The string a DOM API makes of its argument: String(undefined) is "undefined".
ToDOMString(x) == IF x.t = "undefined" THEN TextUndefined ELSE x

STORAGE_PREFIX == "conscience_inquiry_"
\* STORAGE_PREFIX + key, kept as the pair so that startsWith can be decided.
Prefixed(key) == <<STORAGE_PREFIX, key>>
\* A key of another script on the same origin.
ForeignKey == <<"", "theme">>

\* localStorage.setItem / getItem / removeItem on store st under fault f
setItem(st, f, k, x) ==
  IF f # "none" THEN [threw |-> TRUE, store |-> st]
  ELSE [threw |-> FALSE, store |-> [st EXCEPT ![k] = ToDOMString(x)]]
getItem(st, f, k) ==
  IF f = "disabled" THEN Threw ELSE Done(st[k])
removeItem(st, f, k) ==
  IF f = "disabled" THEN [threw |-> TRUE, store |-> st]
  ELSE [threw |-> FALSE, store |-> [st EXCEPT ![k] = NoItem]]

(***************************************************************************)
(* The storage accessor.  Each operator gives the function's outcome:      *)
(* the store afterwards, the value returned, and whether an exception      *)
(* left the function.                                                      *)
(***************************************************************************)
Outcome(st, v, raised) == [store |-> st, v |-> v, raised |-> raised]

saveToStorage_NoCatch(st, f, key, value) ==
  LET serialized == JSON_stringify(value)
      set == setItem(st, f, Prefixed(key), serialized.v)
  IN  IF serialized.threw \/ set.threw
        THEN Outcome(st, Undefined, TRUE)
        ELSE Outcome(set.store, Bool(TRUE), FALSE)

saveToStorage(st, f, key, value) ==
  LET serialized == JSON_stringify(value)
      set == setItem(st, f, Prefixed(key), serialized.v)
  IN  IF serialized.threw \/ set.threw
        THEN Outcome(st, Bool(FALSE), FALSE)
        ELSE Outcome(set.store, Bool(TRUE), FALSE)

loadFromStorage_NoDefault(st, f, key, defaultValue) ==
  LET serialized == getItem(st, f, Prefixed(key))
  IN  IF serialized.threw THEN Outcome(st, defaultValue, FALSE)
      ELSE IF serialized.v = NoItem THEN Outcome(st, Null, FALSE)
      ELSE LET parsed == JSON_parse(serialized.v)
           IN  IF parsed.threw THEN Outcome(st, defaultValue, FALSE)
               ELSE Outcome(st, parsed.v, FALSE)

loadFromStorage(st, f, key, defaultValue) ==
  LET serialized == getItem(st, f, Prefixed(key))
  IN  IF serialized.threw THEN Outcome(st, defaultValue, FALSE)
      ELSE IF serialized.v = NoItem THEN Outcome(st, defaultValue, FALSE)
      ELSE LET parsed == JSON_parse(serialized.v)
           IN  IF parsed.threw THEN Outcome(st, defaultValue, FALSE)
               ELSE Outcome(st, parsed.v, FALSE)

removeFromStorage(st, f, key) ==
  LET rem == removeItem(st, f, Prefixed(key))
  IN  IF rem.threw THEN Outcome(st, Bool(FALSE), FALSE)
      ELSE Outcome(rem.store, Bool(TRUE), FALSE)

\* Every key of the store that starts with the prefix is removed.
clearAllStorage(st, f) ==
  IF f = "disabled" THEN Outcome(st, Bool(FALSE), FALSE)
  ELSE Outcome([k \in DOMAIN st |->
                  IF k[1] = STORAGE_PREFIX THEN NoItem ELSE st[k]],
               Bool(TRUE), FALSE)

\* Array.prototype.includes
Includes(a, x) == \E i \in 1..Len(a) : a[i] = x

markPageCompleted_NoCheck(st, f, pageName) ==
  LET completed == loadFromStorage(st, f, "completed_pages", Arr(<<>>)).v
  IN  IF completed.t # "arr" THEN Outcome(st, Undefined, TRUE)
      ELSE Outcome(saveToStorage(st, f, "completed_pages",
                                 Arr(Append(completed.a, pageName))).store,
                   Undefined, FALSE)

\* A stored value that is no array has no includes method: the call throws.
markPageCompleted(st, f, pageName) ==
  LET completed == loadFromStorage(st, f, "completed_pages", Arr(<<>>)).v
  IN  IF completed.t # "arr" THEN Outcome(st, Undefined, TRUE)
      ELSE IF ~Includes(completed.a, pageName)
        THEN Outcome(saveToStorage(st, f, "completed_pages",
                                   Arr(Append(completed.a, pageName))).store,
                     Undefined, FALSE)
        ELSE Outcome(st, Undefined, FALSE)

isPageCompleted(st, f, pageName) ==
  LET completed == loadFromStorage(st, f, "completed_pages", Arr(<<>>)).v
  IN  IF completed.t # "arr" THEN Outcome(st, Undefined, TRUE)
      ELSE Outcome(st, Bool(Includes(completed.a, pageName)), FALSE)

allPages == <<"index", "biology", "infants", "trauma", "family",
              "starvation", "philosophy", "synthesis">>

\* Math.round of the non-negative fraction num/den: halves go up.
MathRound(num, den) == (2 * num + den) \div (2 * den)

getProgressPercentage_CountEntries(st, f) ==
  LET completed == loadFromStorage(st, f, "completed_pages", Arr(<<>>)).v
  IN  IF completed.t # "arr" THEN Outcome(st, Undefined, TRUE)
      ELSE LET IsPage(p) == Includes(allPages, p)
               completedCount == Len(SelectSeq(completed.a, IsPage))
           IN  Outcome(st, Num(MathRound(completedCount * 100, Len(allPages))),
                       FALSE)

getProgressPercentage(st, f) ==
  LET completed == loadFromStorage(st, f, "completed_pages", Arr(<<>>)).v
  IN  IF completed.t # "arr" THEN Outcome(st, Undefined, TRUE)
      ELSE LET IsCompleted(p) == Includes(completed.a, p)
               completedCount == Len(SelectSeq(allPages, IsCompleted))
           IN  Outcome(st, Num(MathRound(completedCount * 100, Len(allPages))),
                       FALSE)

(***************************************************************************)
(* The store and the storage calls as actions.                             *)
(***************************************************************************)
\* The keys this program reads and writes (getAllResponses).
ResponseKeys == {"initial_slider", "initial_reason", "biology_reflection",
                 "infants_reflection", "trauma_reflection", "family_reflection",
                 "starvation_reflection", "philosophy_reflection",
                 "synthesis_statement", "final_slider", "completed_pages"}
StoreKeys == {Prefixed(k) : k \in ResponseKeys} \cup {ForeignKey}

EmptyStore == [k \in StoreKeys |-> IF k = ForeignKey THEN TextGarbage ELSE NoItem]
NothingSaved == [k \in ResponseKeys |-> NoItem]

NoCall == [op |-> "none", key |-> "", arg |-> Undefined, def |-> Undefined,
           out |-> Undefined, raised |-> FALSE]
Call(op, key, arg, def, o) ==
  [op |-> op, key |-> key, arg |-> arg, def |-> def, out |-> o.v,
   raised |-> o.raised]

\* The state of the parts of the page a specification leaves alone.
SliderIdle == slider = 50 /\ display = ""
PageIdle ==
  /\ textarea = <<>> /\ finalSlider = 50
  /\ timers = {} /\ timeout = 0 /\ nextId = 1
  /\ toasts = <<>> /\ styles = 0
  /\ page = "synthesis"
  /\ last = [ev |-> "load", text |-> <<>>, ok |-> FALSE]
  /\ idle = 0 /\ burstSaves = 0 /\ accepted = <<>>
StorageIdle ==
  /\ store = EmptyStore /\ fault = "none" /\ ret = NoCall
  /\ lastSaved = NothingSaved /\ marked = {}

SaveToStorage(key, value) ==
  LET o == saveToStorage(store, fault, key, value)
  IN  /\ store' = o.store
      /\ ret' = Call("save", key, value, Undefined, o)
      /\ lastSaved' = IF o.v = Bool(TRUE)
                        THEN [lastSaved EXCEPT ![key] = value] ELSE lastSaved
      /\ UNCHANGED <<fault, marked, sliderVars, exported, pageVars>>

LoadFromStorage(key, defaultValue) ==
  LET o == loadFromStorage(store, fault, key, defaultValue)
  IN  /\ ret' = Call("load", key, Undefined, defaultValue, o)
      /\ UNCHANGED <<store, fault, lastSaved, marked, sliderVars, exported,
                     pageVars>>

RemoveFromStorage(key) ==
  LET o == removeFromStorage(store, fault, key)
  IN  /\ store' = o.store
      /\ ret' = Call("remove", key, Undefined, Undefined, o)
      /\ lastSaved' = IF o.v = Bool(TRUE)
                        THEN [lastSaved EXCEPT ![key] = NoItem] ELSE lastSaved
      /\ UNCHANGED <<fault, marked, sliderVars, exported, pageVars>>

ClearAllStorage ==
  LET o == clearAllStorage(store, fault)
  IN  /\ store' = o.store
      /\ ret' = Call("clear", "", Undefined, Undefined, o)
      /\ lastSaved' = IF o.v = Bool(TRUE) THEN NothingSaved ELSE lastSaved
      /\ marked' = IF o.v = Bool(TRUE) THEN {} ELSE marked
      /\ UNCHANGED <<fault, sliderVars, exported, pageVars>>

MarkPageCompleted(pageName) ==
  LET o == markPageCompleted(store, fault, pageName)
      now == JSON_parse(o.store[Prefixed("completed_pages")])
  IN  /\ store' = o.store
      /\ ret' = Call("mark", pageName, Undefined, Undefined, o)
      /\ lastSaved' = IF o.store # store
                        THEN [lastSaved EXCEPT !["completed_pages"] = now.v]
                        ELSE lastSaved
      /\ marked' = IF o.store # store THEN marked \cup {pageName} ELSE marked
      /\ UNCHANGED <<fault, sliderVars, exported, pageVars>>

IsPageCompleted(pageName) ==
  LET o == isPageCompleted(store, fault, pageName)
  IN  /\ ret' = Call("isCompleted", pageName, Undefined, Undefined, o)
      /\ UNCHANGED <<store, fault, lastSaved, marked, sliderVars, exported,
                     pageVars>>

GetProgressPercentage ==
  LET o == getProgressPercentage(store, fault)
  IN  /\ ret' = Call("progress", "", Undefined, Undefined, o)
      /\ UNCHANGED <<store, fault, lastSaved, marked, sliderVars, exported,
                     pageVars>>

\* The environment: the quota fills up or frees, storage access is denied or
\* granted (the persistence API's own conditions, not this program's doing).
SetFault(f) ==
  /\ f # fault
  /\ fault' = f
  /\ ret' = NoCall
  /\ UNCHANGED <<store, lastSaved, marked, sliderVars, exported, pageVars>>

\* The environment: something else on the origin leaves text that is no JSON
\* under one of the program's keys.
ExternalWrite(key) ==
  /\ store[Prefixed(key)] # TextGarbage
  /\ store' = [store EXCEPT ![Prefixed(key)] = TextGarbage]
  /\ ret' = NoCall
  /\ UNCHANGED <<fault, lastSaved, marked, sliderVars, exported, pageVars>>

(***************************************************************************)
(* Spec: the key-value accessor under every condition of the store.        *)
(***************************************************************************)
CallKeys   == {"final_slider", "completed_pages"}
SaveValues == {Num(0), Num(50), Str(<<"a">>), Arr(<<"index">>), Bool(TRUE),
               Null, NaN, Undefined, Cyclic}
Defaults   == {Null, Num(50), Arr(<<>>)}
Faults     == {"none", "quota", "disabled"}

Init == StorageIdle /\ SliderIdle /\ exported = <<>> /\ PageIdle

Next ==
  \/ \E k \in CallKeys, v \in SaveValues : SaveToStorage(k, v)
  \/ \E k \in CallKeys, d \in Defaults : LoadFromStorage(k, d)
  \/ \E k \in CallKeys : RemoveFromStorage(k)
  \/ ClearAllStorage
  \/ \E f \in Faults : SetFault(f)
  \/ \E k \in CallKeys : ExternalWrite(k)

Spec == Init /\ [][Next]_vars

(***************************************************************************)
(* C1: save, load and remove never raise; what they return.                *)
(***************************************************************************)
\* The item under the key of the last call is text the program did not write.
Unparsable == store[Prefixed(ret.key)] = TextGarbage

\* C1 as stated: no call raises; save and remove return whether the store
\* took the call; load returns the default when the store fails, the text is
\* unparsable or nothing is saved, and otherwise the last value saved, whatever
\* that value was.  (Of a value that never reaches the store, because
\* JSON.stringify throws on it, the statement says nothing.)
C1_AsStated ==
  /\ ~ret.raised
  /\ (ret.op = "save" /\ ret.arg.t # "cyclic") => ret.out = Bool(fault = "none")
  /\ ret.op = "remove" => ret.out = Bool(fault # "disabled")
  /\ ret.op = "load" =>
       ret.out = IF \/ fault = "disabled"
                    \/ Unparsable
                    \/ lastSaved[ret.key] = NoItem
                   THEN ret.def
                   ELSE lastSaved[ret.key]

\* C1 amended: as stated for the values JSON represents.  A value
\* JSON.stringify throws on is not saved (save returns false); NaN is loaded
\* back as null; undefined is loaded back as the default.
C1_NeverRaises ==
  /\ ~ret.raised
  /\ ret.op = "save" =>
       ret.out = Bool(fault = "none" /\ ret.arg.t # "cyclic")
  /\ ret.op = "remove" => ret.out = Bool(fault # "disabled")
  /\ ret.op = "load" =>
       ret.out = IF \/ fault = "disabled"
                    \/ Unparsable
                    \/ lastSaved[ret.key] = NoItem
                    \/ lastSaved[ret.key].t = "undefined"
                   THEN ret.def
                   ELSE IF lastSaved[ret.key].t = "nan" THEN Null
                   ELSE lastSaved[ret.key]
  /\ \A k \in ResponseKeys : lastSaved[k].t # "cyclic"

\* A load under denied storage access of a key that holds a saved array gives
\* the default, not the array.
C1_Witness ==
  /\ ret.op = "load" /\ fault = "disabled"
  /\ lastSaved[ret.key] = Arr(<<"index">>)
  /\ store[Prefixed(ret.key)].t = "json_arr"
  /\ ret.out = ret.def /\ ret.def = Num(50)

(***************************************************************************)
(* SpecMark: pages are marked completed, starting from empty storage.      *)
(***************************************************************************)
\* How many of the fixed page names the calls draw from.
NMark == 4
MarkNames == {allPages[i] : i \in 1..NMark} \cup {"glossary"}

NextMark ==
  \/ \E p \in MarkNames : MarkPageCompleted(p)
  \/ \E p \in MarkNames : IsPageCompleted(p)
  \/ GetProgressPercentage

SpecMark == Init /\ [][NextMark]_vars

\* The stored completed-pages list.
CompletedList == store[Prefixed("completed_pages")].a
Occurrences(a, x) == Cardinality({i \in 1..Len(a) : a[i] = x})

\* C2: after any sequence of markPageCompleted calls from empty storage the
\* stored list holds every marked name exactly once and nothing else, and a
\* call with a name that is already in the list leaves the store, and so the
\* order of the list, as it was.
C2_MarkIdempotent ==
  /\ [](\A p \in MarkNames :
          Occurrences(CompletedList, p) = IF p \in marked THEN 1 ELSE 0)
  /\ [][ret'.op = "mark" =>
          /\ ret'.key \in marked'
          /\ Includes(CompletedList, ret'.key) => store' = store
          /\ ~Includes(CompletedList, ret'.key) =>
               CompletedList' = Append(CompletedList, ret'.key)]_vars

\* A page was marked a second time after another page had been marked too.
C2_Witness ==
  /\ ret.op = "mark" /\ ret.key = "index"
  /\ CompletedList = <<"index", "biology">>

(***************************************************************************)
(* SpecProgress: the progress percentage of any stored list.               *)
(***************************************************************************)
\* How often an entry is repeated, and how many unknown names are mixed in.
MaxRepeat  == 1
MaxUnknown == 1

RECURSIVE Copies(_, _)
Copies(x, n) == IF n = 0 THEN <<>> ELSE <<x>> \o Copies(x, n - 1)
RECURSIVE Reverse(_)
Reverse(a) == IF a = <<>> THEN <<>> ELSE Append(Reverse(Tail(a)), Head(a))

\* The page names with index in S, in the order of allPages.
PagesOf(S) == LET In(p) == \E i \in S : allPages[i] = p
              IN  SelectSeq(allPages, In)
\* Stored lists: any set of page names, forwards or backwards, each entry up to
\* MaxRepeat further times, with up to MaxUnknown names that are no page.
ProgressLists ==
  { Copies("glossary", u) \o
      (IF back THEN Reverse(PagesOf(S)) ELSE PagesOf(S)) \o
      (IF S = {} THEN <<>> ELSE Copies(PagesOf(S)[1], r)) \o
      (IF r = 0 THEN <<>> ELSE PagesOf(S))
    : S \in SUBSET (1..Len(allPages)), back \in BOOLEAN,
      r \in 0..MaxRepeat, u \in 0..MaxUnknown }

InitProgress ==
  /\ store \in {EmptyStore} \cup
       {[EmptyStore EXCEPT ![Prefixed("completed_pages")] =
           Val("json_arr", 0, <<>>, a)] : a \in ProgressLists}
  /\ fault = "none" /\ ret = NoCall /\ lastSaved = NothingSaved /\ marked = {}
  /\ SliderIdle /\ exported = <<>> /\ PageIdle

NextProgress ==
  \/ GetProgressPercentage
  \/ \E p \in {"index", "synthesis", "glossary"} : IsPageCompleted(p)

SpecProgress == InitProgress /\ [][NextProgress]_vars

\* The fixed page names that occur in the stored list.
DistinctCompleted ==
  {p \in {allPages[i] : i \in 1..Len(allPages)} : Includes(CompletedList, p)}

\* C3: getProgressPercentage returns 100 * c / 8 rounded to the nearest integer
\* (a half rounds up), c the number of distinct fixed page names in the stored
\* list: 0 for none, 100 for all eight, always within 0..100, whatever else
\* and however often the list holds a name.
C3_Progress ==
  ret.op = "progress" =>
    LET c == Cardinality(DistinctCompleted)
        r == ret.out.n
    IN  /\ ~ret.raised /\ ret.out.t = "num"
        /\ -4 < 8 * r - 100 * c /\ 8 * r - 100 * c <= 4
        /\ r \in 0..100
        /\ c = 0 => r = 0
        /\ c = 8 => r = 100

\* Three distinct pages, one stored three times, and an unknown name: 38.
C3_Witness ==
  /\ ret.op = "progress"
  /\ Cardinality(DistinctCompleted) = 3
  /\ Len(CompletedList) > 5
  /\ Includes(CompletedList, "glossary")
  /\ ret.out = Num(38)

(***************************************************************************)
(* The slider label (interactions.js).                                     *)
(***************************************************************************)
formatConscienceSlider_MidpointInnate(value) ==
  LET innatePercent == value
      constructedPercent == 100 - value
  IN  IF value < 50 THEN ToString(constructedPercent) \o "% Constructed"
      ELSE ToString(innatePercent) \o "% Innate"

formatConscienceSlider(value) ==
  LET innatePercent == value
      constructedPercent == 100 - value
  IN  IF value = 50 THEN "Exactly balanced"
      ELSE IF value < 50 THEN ToString(constructedPercent) \o "% Constructed"
      ELSE ToString(innatePercent) \o "% Innate"

SliderRange == 0..100

\* initSlider(sliderId, displayId, formatConscienceSlider): the first display.
InitSlider ==
  /\ display = ""
  /\ display' = formatConscienceSlider(slider)
  /\ UNCHANGED <<slider, storageVars, exported, pageVars>>

\* The slider's input event: updateDisplay.
SliderInput(v) ==
  /\ display # ""
  /\ slider' = v
  /\ display' = formatConscienceSlider(v)
  /\ UNCHANGED <<storageVars, exported, pageVars>>

InitSliderSpec ==
  /\ slider \in SliderRange /\ display = ""
  /\ StorageIdle /\ exported = <<>> /\ PageIdle

NextSlider ==
  \/ InitSlider
  \/ \E v \in SliderRange : SliderInput(v)

SpecSlider == InitSliderSpec /\ [][NextSlider]_vars

\* C4: for every slider value 0..100 the label shown is the balanced label
\* exactly at 50, "<100 - v>% Constructed" below 50 and "<v>% Innate" above.
C4_SliderLabel ==
  display # "" =>
    /\ (display = "Exactly balanced") <=> (slider = 50)
    /\ slider < 50 => display = ToString(100 - slider) \o "% Constructed"
    /\ slider > 50 => display = ToString(slider) \o "% Innate"

\* The slider was moved to 49: "51% Constructed".
C4_Witness == slider = 49 /\ display = "51% Constructed"

(***************************************************************************)
(* Timers and the toast (interactions.js, showConfirmation).               *)
(***************************************************************************)
TOAST_DELAY == 3000
DEBOUNCE_WAIT == 500
NAV_DELAY == 1500
\* The step by which the clock advances where no finer one is given.
TickMs == DEBOUNCE_WAIT

\* setTimeout(callback, delay): the entry added to the timer table.
Timer(id, kind, el, delay) == [id |-> id, kind |-> kind, el |-> el, rem |-> delay]
\* clearTimeout(id)
clearTimeout(tm, id) == {t \in tm : t.id # id}
\* element.remove() on a toast element: nothing happens if it is not attached.
RemoveElement(ts, el) == LET Other(e) == e.id # el IN SelectSeq(ts, Other)

showConfirmation_KeepExisting(ts, tm, sty, id, type) ==
  [toasts |-> Append(ts, [id |-> id, type |-> type]),
   styles |-> IF sty = 0 THEN sty + 1 ELSE sty,
   timers |-> tm \cup {Timer(id, "toast", id, TOAST_DELAY)}]

\* querySelector gives the first toast of the document, which is removed; the
\* style element is added unless one with its id is there; the new toast is
\* appended and its removal is scheduled.
showConfirmation(ts, tm, sty, id, type) ==
  LET rest == IF ts # <<>> THEN RemoveElement(ts, Head(ts).id) ELSE ts
  IN  [toasts |-> Append(rest, [id |-> id, type |-> type]),
       styles |-> IF sty = 0 THEN sty + 1 ELSE sty,
       timers |-> tm \cup {Timer(id, "toast", id, TOAST_DELAY)}]

\* Ids a specification may hand out: the number of timers and elements made.
MaxId == 4
Min(a, b) == IF a < b THEN a ELSE b

ShowConfirmation(type) ==
  /\ page = "synthesis" /\ nextId <= MaxId
  /\ LET sc == showConfirmation(toasts, timers, styles, nextId, type)
     IN  /\ toasts' = sc.toasts /\ styles' = sc.styles /\ timers' = sc.timers
  /\ nextId' = nextId + 1
  /\ last' = [ev |-> "toast", text |-> <<>>, ok |-> TRUE]
  /\ UNCHANGED <<storageVars, sliderVars, exported, textarea, finalSlider,
                 timeout, page, idle, burstSaves, accepted>>

\* The toast's timer callback: toast.remove() on the toast it was made for.
ToastTimerFire(t) ==
  /\ page = "synthesis"
  /\ t \in timers /\ t.kind = "toast" /\ t.rem = 0
  /\ timers' = timers \ {t}
  /\ toasts' = RemoveElement(toasts, t.el)
  /\ last' = [ev |-> "toastfire", text |-> <<>>, ok |-> TRUE]
  /\ UNCHANGED <<storageVars, sliderVars, exported, textarea, finalSlider,
                 timeout, nextId, styles, page, idle, burstSaves, accepted>>

\* Time passes, by step or up to the next timer that falls due: a due timer
\* runs before the clock moves on.
Tick(step) ==
  /\ page = "synthesis"
  /\ \A t \in timers : t.rem > 0
  /\ LET d == IF \E t \in timers : t.rem < step
                THEN CHOOSE r \in {t.rem : t \in timers} :
                       \A t \in timers : r <= t.rem
                ELSE step
     IN  /\ timers' = {[t EXCEPT !.rem = @ - d] : t \in timers}
         /\ idle' = Min(idle + d, DEBOUNCE_WAIT)
  /\ last' = [ev |-> "tick", text |-> <<>>, ok |-> TRUE]
  /\ UNCHANGED <<storageVars, sliderVars, exported, textarea, finalSlider,
                 timeout, nextId, toasts, styles, page, burstSaves, accepted>>

NextToast ==
  \/ \E type \in {"success", "info"} : ShowConfirmation(type)
  \/ \E t \in timers : ToastTimerFire(t)
  \/ Tick(TickMs)

SpecToast == Init /\ [][NextToast]_vars

ToastIds == {toasts[i].id : i \in 1..Len(toasts)}

\* C9: at most one toast is in the document, and it is the one the latest
\* showConfirmation made; a toast's timer removes that toast and no other; a
\* toast in the document has its removal pending and due within 3000 ms of its
\* showing; the style element is there at most once.
C9_SingleToast ==
  /\ [](/\ Len(toasts) <= 1
        /\ toasts # <<>> => toasts[1].id = nextId - 1
        /\ \A e \in ToastIds :
             \E t \in timers : t.kind = "toast" /\ t.el = e /\ t.rem <= 3000
        /\ styles <= 1
        /\ nextId > 1 => styles = 1)
  /\ [][\A t \in timers :
          (t.kind = "toast" /\ t \notin timers' /\ t.el \notin ToastIds)
            => toasts' = toasts]_vars
  /\ [][nextId' # nextId =>
          /\ ToastIds' = {nextId}
          /\ Timer(nextId, "toast", nextId, 3000) \in timers']_vars

\* Two toasts were shown in turn; the timer of the first has run out while the
\* second is still in the document.
C9_Witness ==
  /\ toasts # <<>> /\ toasts[1].id = 2
  /\ \A t \in timers : t.id # 1
  /\ \E t \in timers : t.id = 2 /\ t.rem < 3000 /\ t.rem > 0

(***************************************************************************)
(* Strings of the page: sequences of one-character strings.                *)
(***************************************************************************)
IsSpace(c) == c = " "
RECURSIVE TrimStart(_)
TrimStart(s) ==
  IF s # <<>> /\ IsSpace(Head(s)) THEN TrimStart(Tail(s)) ELSE s
RECURSIVE TrimEnd(_)
TrimEnd(s) ==
  IF s # <<>> /\ IsSpace(s[Len(s)]) THEN TrimEnd(SubSeq(s, 1, Len(s) - 1))
  ELSE s
\* String.prototype.trim
Trim(s) == TrimEnd(TrimStart(s))

\* A value in a condition: 0, NaN, "", null and undefined count as false.
Truthy(v) ==
  CASE v.t = "num"  -> v.n # 0
    [] v.t = "str"  -> v.s # <<>>
    [] v.t = "bool" -> v.n = 1
    [] v.t = "arr"  -> TRUE
    [] OTHER        -> FALSE

(***************************************************************************)
(* The export (synthesis.js, exportSynthesis).                             *)
(***************************************************************************)
getAllResponses(st, f) ==
  [initialSlider        |-> loadFromStorage(st, f, "initial_slider", Num(50)).v,
   initialReason        |-> loadFromStorage(st, f, "initial_reason", Str(<<>>)).v,
   biologyReflection    |-> loadFromStorage(st, f, "biology_reflection", Str(<<>>)).v,
   infantsReflection    |-> loadFromStorage(st, f, "infants_reflection", Str(<<>>)).v,
   traumaReflection     |-> loadFromStorage(st, f, "trauma_reflection", Str(<<>>)).v,
   familyReflection     |-> loadFromStorage(st, f, "family_reflection", Str(<<>>)).v,
   starvationReflection |-> loadFromStorage(st, f, "starvation_reflection", Str(<<>>)).v,
   philosophyReflection |-> loadFromStorage(st, f, "philosophy_reflection", Str(<<>>)).v,
   synthesisStatement   |-> loadFromStorage(st, f, "synthesis_statement", Str(<<>>)).v,
   finalSlider          |-> loadFromStorage(st, f, "final_slider", Null).v,
   completedPages       |-> loadFromStorage(st, f, "completed_pages", Arr(<<>>)).v]

pillars == <<[key |-> "biologyReflection",    name |-> "The Social Brain"],
             [key |-> "infantsReflection",    name |-> "Infant Fairness"],
             [key |-> "traumaReflection",     name |-> "Epigenetic Trauma"],
             [key |-> "familyReflection",     name |-> "Family & Morality"],
             [key |-> "starvationReflection", name |-> "Starvation Study"],
             [key |-> "philosophyReflection", name |-> "Philosophy"]>>

\* A line of the document: fixed text followed by text of the user.
Line(lit, txt) == [lit |-> lit, txt |-> txt]

\* response && response.trim(), of a reflection, which the pages store as a
\* string.
HasReflection_Untrimmed(response) == Truthy(response)
HasReflection(response) == Truthy(response) /\ Trim(response.s) # <<>>

\* The lines pillars.forEach adds, from pillar i on.
RECURSIVE JourneyLines(_, _)
JourneyLines(responses, i) ==
  IF i > Len(pillars) THEN <<>>
  ELSE LET response == responses[pillars[i].key]
       IN  (IF HasReflection(response)
              THEN <<Line("", <<>>),
                     Line(pillars[i].name \o ":", <<>>),
                     Line("", response.s)>>
              ELSE <<>>)
           \o JourneyLines(responses, i + 1)

\* x || fallback
OrElse(x, fallback) == IF Truthy(x) THEN x ELSE fallback

NotRecorded ==
  Str(<<"N", "o", "t", " ", "r", "e", "c", "o", "r", "d", "e", "d">>)

\* The text exportSynthesis builds, line by line.  The date is the browser's.
ExportText(responses) ==
  <<Line("CONSCIENCE INQUIRY - PERSONAL SYNTHESIS", <<>>),
    Line("==================================================", <<>>),
    Line("", <<>>),
    Line("Date: ", <<>>),
    Line("", <<>>),
    Line("INITIAL POSITION", <<>>),
    Line("------------------------------", <<>>),
    Line("Slider: " \o formatConscienceSlider(responses.initialSlider.n), <<>>),
    Line("Reasoning: ",
         OrElse(responses.initialReason, NotRecorded).s),
    Line("", <<>>),
    Line("FINAL POSITION", <<>>),
    Line("------------------------------", <<>>),
    Line("Slider: "
           \o formatConscienceSlider(OrElse(responses.finalSlider, Num(50)).n),
         <<>>),
    Line("Synthesis: ",
         OrElse(responses.synthesisStatement, NotRecorded).s),
    Line("", <<>>),
    Line("JOURNEY REFLECTIONS", <<>>),
    Line("------------------------------", <<>>)>>
  \o JourneyLines(responses, 1)

ExportSynthesis ==
  /\ page = "synthesis" /\ nextId <= MaxId
  /\ exported' = ExportText(getAllResponses(store, fault))
  /\ LET sc == showConfirmation(toasts, timers, styles, nextId, "success")
     IN  /\ toasts' = sc.toasts /\ styles' = sc.styles /\ timers' = sc.timers
  /\ nextId' = nextId + 1
  /\ last' = [ev |-> "export", text |-> <<>>, ok |-> TRUE]
  /\ ret' = NoCall
  /\ UNCHANGED <<store, fault, lastSaved, marked, sliderVars, textarea,
                 finalSlider, timeout, page, idle, burstSaves, accepted>>

(***************************************************************************)
(* SpecExport: the export of any stored reflections.                       *)
(***************************************************************************)
ReflectionKeys == <<"biology_reflection", "infants_reflection",
                    "trauma_reflection", "family_reflection",
                    "starvation_reflection", "philosophy_reflection">>
\* What a reflection page may have stored: nothing, "", " ", "a", " a ".
StoredReflections ==
  {NoItem} \cup {Val("json_str", 0, t, <<>>) :
                   t \in {<<>>, <<" ">>, <<"a">>, <<" ", "a", " ">>}}

\* The store in which topic i holds r[i] and nothing else is stored.
StoreWithReflections(r) ==
  [k \in StoreKeys |->
     IF \E i \in 1..Len(ReflectionKeys) : k = Prefixed(ReflectionKeys[i])
       THEN r[CHOOSE i \in 1..Len(ReflectionKeys) : k = Prefixed(ReflectionKeys[i])]
       ELSE EmptyStore[k]]

InitExport ==
  /\ store \in {StoreWithReflections(r) :
                  r \in [1..Len(ReflectionKeys) -> StoredReflections]}
  /\ fault = "none" /\ ret = NoCall /\ lastSaved = NothingSaved /\ marked = {}
  /\ SliderIdle /\ exported = <<>> /\ PageIdle

NextExport == ExportSynthesis

SpecExport == InitExport /\ [][NextExport]_vars

\* The stored reflection of topic i, and whether it has any text.
StoredReflection(i) == store[Prefixed(ReflectionKeys[i])]
Nonblank(i) ==
  /\ StoredReflection(i).t = "json_str"
  /\ \E j \in 1..Len(StoredReflection(i).s) : StoredReflection(i).s[j] # " "
\* The lines after the JOURNEY REFLECTIONS heading and its rule.
JourneyStart ==
  CHOOSE j \in 1..Len(exported) : exported[j].lit = "JOURNEY REFLECTIONS"
Journey == SubSeq(exported, JourneyStart + 2, Len(exported))
\* How many topics up to i have text.
RankOf(i) == Cardinality({k \in 1..i : Nonblank(k)})

\* C6: the document holds, for each topic whose stored reflection has text
\* other than whitespace, the topic's name followed by the stored reflection as
\* it is stored, these entries in the fixed topic order, and no entry for any
\* other topic.
C6_ExportReflections ==
  exported # <<>> =>
    /\ Len(Journey) = 3 * RankOf(Len(pillars))
    /\ \A i \in 1..Len(pillars) :
         Nonblank(i) =>
           /\ Journey[3 * RankOf(i) - 1] = Line(pillars[i].name \o ":", <<>>)
           /\ Journey[3 * RankOf(i)] = Line("", StoredReflection(i).s)
    /\ \A i \in 1..Len(pillars) :
         ~Nonblank(i) =>
           \A j \in 1..Len(Journey) : Journey[j].lit # pillars[i].name \o ":"

\* An export where the first topic holds " a ", the second only a blank, the
\* third is absent and the last holds "a".
C6_Witness ==
  /\ exported # <<>>
  /\ StoredReflection(1).s = <<" ", "a", " ">>
  /\ StoredReflection(2).s = <<" ">>
  /\ StoredReflection(3) = NoItem
  /\ StoredReflection(6).s = <<"a">>
  /\ Len(Journey) >= 6

(***************************************************************************)
(* The synthesis form (synthesis.js, initSynthesisForm and debounce).      *)
(***************************************************************************)
MIN_SYNTHESIS == 100

\* The debounced function is called: the pending timer is cleared and a new
\* one is set; the closure keeps the new timer's id.
debounce_NoClear(tm, to, id) ==
  [timers |-> tm \cup {Timer(id, "autosave", 0, DEBOUNCE_WAIT)}, timeout |-> id]
debounce(tm, to, id) ==
  [timers |-> clearTimeout(tm, to) \cup {Timer(id, "autosave", 0, DEBOUNCE_WAIT)},
   timeout |-> id]

\* The text area's input event, the user having made its content text.
TextInput(text) ==
  /\ page = "synthesis" /\ nextId <= MaxId
  /\ textarea' = text
  /\ LET db == debounce(timers, timeout, nextId)
     IN  timers' = db.timers /\ timeout' = db.timeout
  /\ nextId' = nextId + 1
  /\ last' = [ev |-> "input", text |-> text, ok |-> TRUE]
  /\ idle' = 0 /\ burstSaves' = 0 /\ accepted' = <<>>
  /\ UNCHANGED <<storageVars, sliderVars, exported, finalSlider, toasts, styles,
                 page>>

\* The debounce timer's callback, later: clearTimeout(timeout), then the save
\* of what the text area holds now.
AutoSaveFire(t) ==
  /\ page = "synthesis"
  /\ t \in timers /\ t.kind = "autosave" /\ t.rem = 0
  /\ timers' = clearTimeout(timers \ {t}, timeout)
  /\ LET o == saveToStorage(store, fault, "synthesis_statement", Str(textarea))
     IN  /\ store' = o.store
         /\ ret' = Call("save", "synthesis_statement", Str(textarea), Undefined, o)
         /\ lastSaved' = IF o.v = Bool(TRUE)
              THEN [lastSaved EXCEPT !["synthesis_statement"] = Str(textarea)]
              ELSE lastSaved
  /\ burstSaves' = burstSaves + 1
  /\ last' = [ev |-> "autosave", text |-> textarea, ok |-> TRUE]
  /\ UNCHANGED <<fault, marked, sliderVars, exported, textarea, finalSlider,
                 timeout, nextId, toasts, styles, page, idle, accepted>>

\* The final slider's input event: saved at once.
FinalSliderInput(v) ==
  /\ page = "synthesis"
  /\ finalSlider' = v
  /\ LET o == saveToStorage(store, fault, "final_slider", Num(v))
     IN  /\ store' = o.store
         /\ ret' = Call("save", "final_slider", Num(v), Undefined, o)
         /\ lastSaved' = IF o.v = Bool(TRUE)
              THEN [lastSaved EXCEPT !["final_slider"] = Num(v)] ELSE lastSaved
  /\ last' = [ev |-> "slider", text |-> <<>>, ok |-> TRUE]
  /\ UNCHANGED <<fault, marked, sliderVars, exported, textarea, timers, timeout,
                 nextId, toasts, styles, page, idle, burstSaves, accepted>>

\* synthesisValue.length < 100
TooShort_OffByOne(synthesisValue) == Len(synthesisValue) <= MIN_SYNTHESIS
TooShort(synthesisValue) == Len(synthesisValue) < MIN_SYNTHESIS

\* The form's submit event.
SubmitSynthesis ==
  /\ page = "synthesis" /\ nextId + 1 <= MaxId
  /\ LET synthesisValue == Trim(textarea)
         sliderValue == finalSlider
     IN  IF TooShort(synthesisValue)
           THEN /\ LET sc == showConfirmation(toasts, timers, styles, nextId, "info")
                   IN  /\ toasts' = sc.toasts /\ styles' = sc.styles
                       /\ timers' = sc.timers
                /\ nextId' = nextId + 1
                /\ last' = [ev |-> "submit", text |-> textarea, ok |-> FALSE]
                /\ ret' = NoCall
                /\ UNCHANGED <<store, lastSaved, marked, accepted>>
           ELSE LET s1 == saveToStorage(store, fault, "synthesis_statement",
                                        Str(synthesisValue))
                    s2 == saveToStorage(s1.store, fault, "final_slider",
                                        Num(sliderValue))
                    s3 == markPageCompleted(s2.store, fault, "synthesis")
                    sc == showConfirmation(toasts, timers, styles, nextId,
                                           "success")
                    \* markPageCompleted throws on a stored completed_pages
                    \* that is no array: the handler ends there.
                    went == ~s3.raised
                IN  /\ store' = s3.store
                    /\ ret' = Call("mark", "synthesis", Undefined, Undefined, s3)
                    /\ lastSaved' =
                         [lastSaved EXCEPT
                            !["synthesis_statement"] =
                               IF s1.v = Bool(TRUE) THEN Str(synthesisValue) ELSE @,
                            !["final_slider"] =
                               IF s2.v = Bool(TRUE) THEN Num(sliderValue) ELSE @,
                            !["completed_pages"] =
                               IF s3.store # s2.store
                                 THEN JSON_parse(s3.store[Prefixed("completed_pages")]).v
                                 ELSE @]
                    /\ marked' = IF s3.store # s2.store
                                   THEN marked \cup {"synthesis"} ELSE marked
                    /\ toasts' = IF went THEN sc.toasts ELSE toasts
                    /\ styles' = IF went THEN sc.styles ELSE styles
                    /\ timers' = IF went
                         THEN sc.timers \cup {Timer(nextId + 1, "nav", 0, NAV_DELAY)}
                         ELSE timers
                    /\ nextId' = IF went THEN nextId + 2 ELSE nextId
                    /\ last' = [ev |-> "submit", text |-> textarea, ok |-> went]
                    /\ accepted' = IF went THEN synthesisValue ELSE accepted
  /\ UNCHANGED <<fault, sliderVars, exported, textarea, finalSlider, timeout,
                 page, idle, burstSaves>>

\* The navigation timer's callback: window.location.href = 'conclusion.html'.
\* The document is left: its timers and elements go with it.
NavFire(t) ==
  /\ page = "synthesis"
  /\ t \in timers /\ t.kind = "nav" /\ t.rem = 0
  /\ page' = "conclusion"
  /\ timers' = {} /\ toasts' = <<>> /\ styles' = 0
  /\ last' = [ev |-> "nav", text |-> <<>>, ok |-> TRUE]
  /\ UNCHANGED <<storageVars, sliderVars, exported, textarea, finalSlider,
                 timeout, nextId, idle, burstSaves, accepted>>

(***************************************************************************)
(* SpecSynth: the synthesis form in use.                                   *)
(***************************************************************************)
\* What the user may make the text area hold: texts one short of the minimum
\* and of exactly the minimum, bare and with blanks before or after.
Letters(n) == Copies("a", n)
Texts ==
  {Letters(MIN_SYNTHESIS - 1), Letters(MIN_SYNTHESIS),
   Letters(MIN_SYNTHESIS - 1) \o <<" ">>,
   <<" ">> \o Letters(MIN_SYNTHESIS) \o <<" ">>}
FinalSliderChoices == {73}

NextSynth ==
  \/ \E text \in Texts : TextInput(text)
  \/ \E v \in FinalSliderChoices : FinalSliderInput(v)
  \/ SubmitSynthesis
  \/ Tick(TickMs)
  \/ \E t \in timers : AutoSaveFire(t)
  \/ \E t \in timers : ToastTimerFire(t)
  \/ \E t \in timers : NavFire(t)

\* The page is loaded with an empty store, which takes writes, is out of
\* quota or is disabled while the page is open.
InitSynth ==
  /\ store = EmptyStore /\ fault \in Faults /\ ret = NoCall
  /\ lastSaved = NothingSaved /\ marked = {}
  /\ SliderIdle /\ exported = <<>> /\ PageIdle

SpecSynth == InitSynth /\ [][NextSynth]_vars

StoredText(v) == Val("json_str", 0, v, <<>>)
StoredSynthesis == store[Prefixed("synthesis_statement")]
NavTimers == {t \in timers : t.kind = "nav"}
\* The step is a run of the submit handler.
SubmitStep == last'.ev = "submit" /\ nextId' # nextId

\* C5 as stated, for a store that takes the writes: the threshold is on the
\* length of the free text as typed.
C5_AsStated ==
  [][(SubmitStep /\ fault = "none") =>
      IF Len(textarea) < 100
        THEN /\ store' = store /\ NavTimers' = NavTimers
        ELSE /\ StoredSynthesis'.t = "json_str"
             /\ store'[Prefixed("final_slider")] = Val("json_num", finalSlider, <<>>, <<>>)
             /\ Includes(CompletedList', "synthesis")
             /\ NavTimers' # NavTimers]_vars

\* C5 amended: the threshold is on the length of the free text with the
\* whitespace at its ends removed.  Below 100 the submit writes nothing,
\* marks nothing and schedules no navigation; from 100 on it schedules the
\* navigation after 1500 ms and, the store taking the writes, stores the
\* trimmed text and the slider value and marks synthesis completed.
C5_SubmitThreshold ==
  [][SubmitStep =>
      IF Len(Trim(textarea)) < 100
        THEN /\ store' = store /\ NavTimers' = NavTimers
             /\ page' = "synthesis"
        ELSE /\ fault = "none" =>
                  /\ StoredSynthesis' = StoredText(Trim(textarea))
                  /\ store'[Prefixed("final_slider")] =
                       Val("json_num", finalSlider, <<>>, <<>>)
                  /\ Includes(CompletedList', "synthesis")
             /\ fault # "none" => store' = store
             /\ NavTimers' = NavTimers \cup {Timer(nextId + 1, "nav", 0, 1500)}]_vars

\* A text of exactly 100 letters between two blanks was submitted and
\* accepted: the 100 letters are stored and the navigation is pending.
C5_Witness ==
  /\ last.ev = "submit" /\ last.ok
  /\ Len(last.text) = 102 /\ Len(Trim(last.text)) = 100
  /\ StoredSynthesis = StoredText(Trim(last.text))
  /\ NavTimers # {} /\ Includes(CompletedList, "synthesis")

\* C10: from an accepted submit until the navigation, with no edit made since,
\* the stored synthesis_statement is the trimmed text the submit persisted.
C10_AcceptedTextStays ==
  (accepted # <<>> /\ page = "synthesis"
     /\ lastSaved["synthesis_statement"] # NoItem) =>
     StoredSynthesis = StoredText(accepted)

(***************************************************************************)
(* SpecExportSlider: the export after the sliders were set.                *)
(***************************************************************************)
ExportSliderChoices == {0, 1, 49, 50, 51, 100}

InitExportSlider ==
  /\ store \in {EmptyStore} \cup
       {[EmptyStore EXCEPT ![Prefixed("initial_slider")] =
           Val("json_num", i, <<>>, <<>>)] : i \in SliderRange}
  /\ fault = "none" /\ ret = NoCall /\ lastSaved = NothingSaved /\ marked = {}
  /\ SliderIdle /\ exported = <<>> /\ PageIdle

NextExportSlider ==
  \/ \E v \in ExportSliderChoices : FinalSliderInput(v)
  \/ ExportSynthesis

SpecExportSlider == InitExportSlider /\ [][NextExportSlider]_vars

\* The line under the heading of a section of the document.
SliderLineOf(heading) ==
  exported[(CHOOSE j \in 1..Len(exported) : exported[j].lit = heading) + 2]

\* C7: the document just exported shows formatConscienceSlider of the stored
\* initial_slider in its initial section and formatConscienceSlider of the
\* stored final_slider in its final section.
C7_ExportSliders ==
  last.ev = "export" =>
    /\ store[Prefixed("initial_slider")].t = "json_num" =>
         SliderLineOf("INITIAL POSITION") =
           Line("Slider: "
                  \o formatConscienceSlider(store[Prefixed("initial_slider")].n),
                <<>>)
    /\ store[Prefixed("final_slider")].t = "json_num" =>
         SliderLineOf("FINAL POSITION") =
           Line("Slider: "
                  \o formatConscienceSlider(store[Prefixed("final_slider")].n),
                <<>>)

(***************************************************************************)
(* SpecAutoSave: typing into the text area while the page stays open.      *)
(***************************************************************************)
\* The times between keystrokes: a fifth and a half of the debounce delay.
TypingSteps == {DEBOUNCE_WAIT \div 5, DEBOUNCE_WAIT \div 2}

NextAutoSave ==
  \/ \E text \in Texts : TextInput(text)
  \/ \E step \in TypingSteps : Tick(step)
  \/ \E t \in timers : AutoSaveFire(t)

\* The event loop runs a timer that is due, and time goes on.
SpecAutoSave ==
  /\ Init /\ [][NextAutoSave]_vars
  /\ WF_vars(\E step \in TypingSteps : Tick(step))
  /\ WF_vars(\E t \in timers : AutoSaveFire(t))

AutoSaveTimers == {t \in timers : t.kind = "autosave"}

\* C8: at most one auto-save timer is pending; an input event cancels the
\* pending one and starts one of 500 ms; auto-save writes only when 500 ms
\* have passed since the last input, writes what the text area holds, and
\* writes once per burst; and once input stops the write happens.
C8_Debounce ==
  /\ [](Cardinality(AutoSaveTimers) <= 1 /\ burstSaves <= 1)
  /\ [][(last'.ev = "input" /\ nextId' # nextId) =>
          AutoSaveTimers' = {Timer(nextId, "autosave", 0, 500)}]_vars
  /\ [][burstSaves' > burstSaves =>
          /\ idle >= 500
          /\ AutoSaveTimers' = {}
          /\ StoredSynthesis' = StoredText(textarea)
          /\ textarea' = textarea]_vars
  /\ (AutoSaveTimers # {}) ~> (burstSaves = 1 /\ StoredSynthesis = StoredText(textarea))

\* Two inputs in a burst, then one save of the second text.
C8_Witness ==
  /\ nextId = 3 /\ burstSaves = 1 /\ AutoSaveTimers = {}
  /\ StoredSynthesis = StoredText(textarea)
  /\ lastSaved["synthesis_statement"] = Str(textarea)

====
